---- MODULE Spec2Model ----
(***************************************************************************)
(* gpoint: Display for GPoint<f64>/GPoint<f32> through libc's              *)
(* snprintf("%g").  fmt_g assembles a printf control string from the       *)
(* Formatter's directives in a FORMAT_SIZE byte buffer, lets snprintf      *)
(* render the double into a NUMSTR_SIZE byte buffer and copies the         *)
(* rendering to the Formatter's sink.                                      *)
(*                                                                         *)
(* Text is a sequence of one-character strings.  A double is its exact     *)
(* decimal expansion: the significant digits (first and last non-zero)     *)
(* and the decimal exponent of the first digit, so that the rounding       *)
(* snprintf performs is exact (round-half-even on the binary value, as     *)
(* glibc and musl do in the default rounding mode).                        *)
(***************************************************************************)
EXTENDS Integers, Sequences, FiniteSets, TLC

FORMAT_SIZE == 20
NUMSTR_SIZE == 200

\* Option::None of formatter.width() / formatter.precision()
None == -1

(***************************************************************************)
(* Bounds of the checked input space.                                      *)
(***************************************************************************)
MidWidth == 4
MaxWidth == 8
BigWidth == 1000000000
MaxPrec == 6
BigPrec == 1000000000

Min(a, b) == IF a < b THEN a ELSE b
Max(a, b) == IF a > b THEN a ELSE b

Rep(c, n) == [i \in 1..n |-> c]
Prefix(s, n) == SubSeq(s, 1, Min(n, Len(s)))

(***************************************************************************)
(* Decimal text of an integer, as Rust's Display for usize writes it and   *)
(* as printf's directive parser reads it back.                             *)
(***************************************************************************)
DigitChars == <<"0", "1", "2", "3", "4", "5", "6", "7", "8", "9">>
DigitChar(d) == DigitChars[d + 1]
IsDigit(c) == \E d \in 0..9 : DigitChar(d) = c
CharDigit(c) == CHOOSE d \in 0..9 : DigitChar(d) = c

RECURSIVE UsizeDisplay(_)
UsizeDisplay(n) ==
    IF n < 10 THEN <<DigitChar(n)>>
    ELSE Append(UsizeDisplay(n \div 10), DigitChar(n % 10))

RECURSIVE ReadInt(_)
ReadInt(s) ==
    IF s = <<>> THEN 0
    ELSE 10 * ReadInt(SubSeq(s, 1, Len(s) - 1)) + CharDigit(s[Len(s)])

(***************************************************************************)
(* The f64 values formatted.  Each finite value is the exact decimal       *)
(* expansion of the double nearest to the literal named in the comment.    *)
(***************************************************************************)
Finite(neg, digits, exp10) ==
    [cls |-> "finite", neg |-> neg, digits |-> digits, exp10 |-> exp10]

Magnitudes ==
    { <<<<4,2>>, 1>>,                                        \* 42.0
      <<<<1,0,1,0,0,0,0,0,0,0,0,0,0,0,0,0,0,0,8,8,8,1,7,8,4,1,9,7,0,0,1,2,5,
          2,3,2,3,3,8,9,0,5,3,3,4,4,7,2,6,5,6,2,5>>, 0>>,    \* 1.01
      <<<<1,0,1,2,3,4,5,6,7,8,9,0,0,9,9,9,9,1,2,3,8,6,2,8,2,6,3,0,9,0,5,0,4,
          3,3,3,3,7,6,8,8,4,4,6,0,4,4,9,2,1,8,7,5>>, 0>>,    \* 1.012345678901
      <<<<4,2,8,9,5,2,0,0,0,0,0,0,0,0,0,0,2,6,6,0,2,7,2,0,0,2,6,8,5,8,1,5,0,
          9,5,9,0,1,4,8,9,2,5,7,8,1,2,5>>, 1>>,              \* 42.8952
      <<<<4,3,2,1>>, 3>>,                                    \* 4321.0
      <<<<4,3,2,1>>, 5>>,                                    \* 432100.0
      <<<<1,2,3,4,4,9,9,9,9,9,9,9,9,9,9,9,9,3,0,7,2,2,0,8,3,2,6,3,3,9,0,2,3,
          1,8,7,7,5,6,5,3,8,3,9,1,1,1,3,2,8,1,2,5>>, 0>>,    \* 1.2345
      <<<<9,9,9,9,5,9,9,9,9,9,9,9,9,9,9,9,1,5,5,8,7,5,2,2,9,9,1,7,0,0,0,9,7,
          9,1,8,5,1,0,4,3,7,0,1,1,7,1,8,7,5>>, 0>>,          \* 9.9996
      <<<<1,0,0,0,0,0,0,0,0,0,0,0,0,0,0,0,0,4,7,9,2,1,7,3,6,0,2,3,8,5,9,2,9,
          5,9,8,3,1,2,9,4,1,3,7,9,8,4,5,1,4,2,3,6,4,5,0,1,9,5,3,1,2,5>>,
        -4>>,                                                \* 0.0001
      <<<<1,0,0,0,0,0,0,0,0,0,0,0,0,0,0,0,0,8,1,8,0,3,0,5,3,9,1,4,0,3,1,3,0,
          9,5,4,5,8,6,2,3,1,3,8,2,5,6,3,7,1,0,2,1,2,7,0,7,5,1,9,5,3,1,2,5>>,
        -5>>,                                                \* 0.00001
      <<<<9,9,9,9,5,9,9,9,9,9,9,9,9,9,9,9,6,0,2,1,3,2,8,4,4,1,1,2,0,3,4,6,0,
          4,2,2,2,5,7,1,9,4,2,9,5,5,2,5,5,5,0,8,4,2,2,8,5,1,5,6,2,5>>,
        -5>>,                                                \* 0.000099996
      <<<<9,9,9,9,9,9,5>>, 5>>,                              \* 999999.5
      <<<<2,5>>, 0>>,                                        \* 2.5
      <<<<1,0,0,0,0,0,0,0,0,0,0,0,0,0,0,0,0,1,5,9,0,2,8,9,1,1,0,9,7,5,9,9,1,
          8,0,4,6,8,3,6,0,8,0,8,5,6,3,9,4,5,2,8,1,3,8,9,7,8,1,3,2,7,5,5,7,7,
          4,7,8,3,8,7,7,2,1,7,0,3,8,1,0,6,0,8,1,3,4,6,9,9,8,5,8,5,6,8,1,5,1,
          0,4>>, 100>> }                                     \* 1e100

Values ==
    { Finite(neg, m[1], m[2]) : neg \in BOOLEAN, m \in Magnitudes }
    \cup { [cls |-> c, neg |-> neg, digits |-> <<0>>, exp10 |-> 0] :
             c \in {"zero", "inf", "nan"}, neg \in BOOLEAN }

IsSpecial(v) == v.cls \in {"inf", "nan"}

(***************************************************************************)
(* fmt_g, part 1: the printf control string.                               *)
(* A Formatter is the record of the directives fmt_g reads:                *)
(* sign_aware_zero_pad, sign_minus, sign_plus, alternate, width, precision.*)
(***************************************************************************)
\* Mutant: the zero-pad flag is never passed on.
ZeroPadNever(f) == <<>>

ZeroPad(f) == IF f.sign_aware_zero_pad THEN <<"0">> ELSE <<>>

\* Mutant: sign-aware zero padding takes precedence over "-", as it does
\* over alignment in Rust's own formatting.
SignPadZeroWins(f) ==
    IF f.sign_minus /\ ~f.sign_aware_zero_pad THEN <<"-">>
    ELSE IF f.sign_plus THEN <<"+">>
    ELSE <<>>

SignPad(f) ==
    IF f.sign_minus THEN <<"-">>
    ELSE IF f.sign_plus THEN <<"+">>
    ELSE <<>>

\* Mutant: the alternate flag is never passed on.
AlternateNever(f) == <<>>

Alternate(f) == IF f.alternate THEN <<"#">> ELSE <<>>

\* Mutant: the (Some(w), None) arm leaves the width out.
ControlStringNoWidth(f) ==
    CASE f.width = None /\ f.precision = None ->
           <<"%">> \o Alternate(f) \o SignPad(f) \o <<"g">>
      [] f.width # None /\ f.precision = None ->
           <<"%">> \o Alternate(f) \o SignPad(f) \o ZeroPad(f) \o <<"g">>
      [] f.width = None /\ f.precision # None ->
           <<"%">> \o Alternate(f) \o <<".">> \o UsizeDisplay(f.precision)
                   \o <<"g">>
      [] f.width # None /\ f.precision # None ->
           <<"%">> \o Alternate(f) \o SignPad(f) \o ZeroPad(f)
                   \o UsizeDisplay(f.width) \o <<".">>
                   \o UsizeDisplay(f.precision) \o <<"g">>

\* Mutant: the (None, Some(p)) arm leaves out the "." before the precision.
ControlStringNoDot(f) ==
    CASE f.width = None /\ f.precision = None ->
           <<"%">> \o Alternate(f) \o SignPad(f) \o <<"g">>
      [] f.width # None /\ f.precision = None ->
           <<"%">> \o Alternate(f) \o SignPad(f) \o ZeroPad(f)
                   \o UsizeDisplay(f.width) \o <<"g">>
      [] f.width = None /\ f.precision # None ->
           <<"%">> \o Alternate(f) \o UsizeDisplay(f.precision) \o <<"g">>
      [] f.width # None /\ f.precision # None ->
           <<"%">> \o Alternate(f) \o SignPad(f) \o ZeroPad(f)
                   \o UsizeDisplay(f.width) \o <<".">>
                   \o UsizeDisplay(f.precision) \o <<"g">>

\* Mutant: an absent precision is written as ".0" (precision.unwrap_or(0)).
ControlStringDefaultZero(f) ==
    CASE f.width = None /\ f.precision = None ->
           <<"%">> \o Alternate(f) \o SignPad(f) \o <<".", "0", "g">>
      [] f.width # None /\ f.precision = None ->
           <<"%">> \o Alternate(f) \o SignPad(f) \o ZeroPad(f)
                   \o UsizeDisplay(f.width) \o <<".", "0", "g">>
      [] f.width = None /\ f.precision # None ->
           <<"%">> \o Alternate(f) \o <<".">> \o UsizeDisplay(f.precision)
                   \o <<"g">>
      [] f.width # None /\ f.precision # None ->
           <<"%">> \o Alternate(f) \o SignPad(f) \o ZeroPad(f)
                   \o UsizeDisplay(f.width) \o <<".">>
                   \o UsizeDisplay(f.precision) \o <<"g">>

\* The text the write! of the match on (width, precision) formats.
ControlString(f) ==
    CASE f.width = None /\ f.precision = None ->
           <<"%">> \o Alternate(f) \o SignPad(f) \o <<"g">>
      [] f.width # None /\ f.precision = None ->
           <<"%">> \o Alternate(f) \o SignPad(f) \o ZeroPad(f)
                   \o UsizeDisplay(f.width) \o <<"g">>
      [] f.width = None /\ f.precision # None ->
           <<"%">> \o Alternate(f) \o <<".">> \o UsizeDisplay(f.precision)
                   \o <<"g">>
      [] f.width # None /\ f.precision # None ->
           <<"%">> \o Alternate(f) \o SignPad(f) \o ZeroPad(f)
                   \o UsizeDisplay(f.width) \o <<".">>
                   \o UsizeDisplay(f.precision) \o <<"g">>

\* Cursor over &mut format[..FORMAT_SIZE - 1]: write_all fails once the slice
\* is full, and write! then returns the error.
CursorCapacity == FORMAT_SIZE - 1
WriteFits(s) == Len(s) <= CursorCapacity

(***************************************************************************)
(* snprintf, part 1: reading the conversion specification                  *)
(* %[flags][width][.precision]g back from the control string.              *)
(***************************************************************************)
FlagChars == {"-", "+", " ", "#", "0"}

RECURSIVE FlagEnd(_, _)
FlagEnd(s, i) ==
    IF i <= Len(s) /\ s[i] \in FlagChars THEN FlagEnd(s, i + 1) ELSE i

RECURSIVE DigitEnd(_, _)
DigitEnd(s, i) ==
    IF i <= Len(s) /\ IsDigit(s[i]) THEN DigitEnd(s, i + 1) ELSE i

\* Whether flag character ch is among the flags s[2..f1-1].
HasFlag(s, f1, ch) == \E i \in 2..(f1 - 1) : s[i] = ch

\* The specification once its parts are located: flags in s[2..f1-1], width
\* in s[f1..w1-1], and, when dot, precision in s[w1+1..p1-1].
Conversion(s, f1, w1, dot, p1) ==
    [ alt |-> HasFlag(s, f1, "#"),
      left |-> HasFlag(s, f1, "-"),
      plus |-> HasFlag(s, f1, "+"),
      space |-> HasFlag(s, f1, " "),
      zero |-> HasFlag(s, f1, "0"),
      width |-> IF w1 > f1 THEN ReadInt(SubSeq(s, f1, w1 - 1)) ELSE None,
      prec |-> IF dot THEN ReadInt(SubSeq(s, w1 + 1, p1 - 1)) ELSE None,
      conv |-> IF p1 <= Len(s) THEN s[p1] ELSE "" ]

ParsePrecision(s, f1, w1) ==
    IF w1 <= Len(s) /\ s[w1] = "."
    THEN Conversion(s, f1, w1, TRUE, DigitEnd(s, w1 + 1))
    ELSE Conversion(s, f1, w1, FALSE, w1)

ParseWidth(s, f1) == ParsePrecision(s, f1, DigitEnd(s, f1))

ParseControl(s) == ParseWidth(s, FlagEnd(s, 2))

(***************************************************************************)
(* snprintf, part 2: the g conversion of a double (ISO C 7.21.6.1).        *)
(* glibc 2.36 agrees with it on the values and directives below, except    *)
(* that with # it drops the fraction when rounding moves a value from      *)
(* style f into style e ("%#g" of 999999.5 gives "1.e+06").                *)
(***************************************************************************)
\* "Let P equal the precision if nonzero, 6 if the precision is omitted, or
\* 1 if it is zero."
EffectivePrecision(prec) ==
    IF prec = None THEN 6 ELSE IF prec = 0 THEN 1 ELSE prec

\* kept + 1 in the last place, for kept not all nines.
Increment(kept) ==
    LET j == CHOOSE k \in 1..Len(kept) :
                 kept[k] # 9 /\ \A i \in (k + 1)..Len(kept) : kept[i] = 9
    IN [i \in 1..Len(kept) |->
           IF i < j THEN kept[i] ELSE IF i = j THEN kept[i] + 1 ELSE 0]

\* Whether the digits after the first P round the P-th digit up (to
\* nearest, ties to even).
RoundsUp(digits, P) ==
    \/ digits[P + 1] > 5
    \/ /\ digits[P + 1] = 5
       /\ \/ \E i \in (P + 2)..Len(digits) : digits[i] # 0
          \/ digits[P] % 2 = 1

\* The value rounded to P significant digits: the digits that are written
\* out (at most P; the digits up to P that are not listed are zeros) and
\* the decimal exponent X of the rounded value.
RoundSig(digits, exp10, P) ==
    IF Len(digits) <= P THEN [d |-> digits, x |-> exp10]
    ELSE IF ~RoundsUp(digits, P) THEN [d |-> SubSeq(digits, 1, P), x |-> exp10]
    ELSE IF \A i \in 1..P : digits[i] = 9
         THEN [d |-> <<1>> \o Rep(0, P - 1), x |-> exp10 + 1]
         ELSE [d |-> Increment(SubSeq(digits, 1, P)), x |-> exp10]

RECURSIVE StripZeros(_)
StripZeros(ds) ==
    IF ds # <<>> /\ ds[Len(ds)] = 0
    THEN StripZeros(SubSeq(ds, 1, Len(ds) - 1))
    ELSE ds

DigitText(ds) == [i \in 1..Len(ds) |-> DigitChar(ds[i])]

\* e+XX / e-XX: a sign and at least two digits.
ExponentSuffix(x) ==
    IF x < 0
    THEN <<"e", "-">> \o (IF -x < 10 THEN <<"0">> ELSE <<>>) \o UsizeDisplay(-x)
    ELSE <<"e", "+">> \o (IF x < 10 THEN <<"0">> ELSE <<>>) \o UsizeDisplay(x)

\* "if P > X >= -4, the conversion is with style f and precision P - (X + 1).
\* Otherwise, the conversion is with style e and precision P - 1."
UsesStyleE(x, P) == x < -4 \/ x >= P

\* The mantissa r.d * 10^r.x laid out for its style: the digits before the
\* point, the listed digits after it, the count of zeros that follow them up
\* to the style's precision, and the exponent suffix.
Layout(r, P) ==
    IF UsesStyleE(r.x, P)
    THEN [int |-> <<r.d[1]>>, frac |-> SubSeq(r.d, 2, Len(r.d)),
          pad |-> P - Len(r.d), tail |-> ExponentSuffix(r.x)]
    ELSE IF r.x < 0
    THEN [int |-> <<0>>, frac |-> Rep(0, -r.x - 1) \o r.d,
          pad |-> P - Len(r.d), tail |-> <<>>]
    ELSE IF Len(r.d) >= r.x + 1
    THEN [int |-> SubSeq(r.d, 1, r.x + 1),
          frac |-> SubSeq(r.d, r.x + 2, Len(r.d)),
          pad |-> P - Len(r.d), tail |-> <<>>]
    ELSE [int |-> r.d \o Rep(0, r.x + 1 - Len(r.d)), frac |-> <<>>,
          pad |-> P - (r.x + 1), tail |-> <<>>]

\* Without the # flag trailing zeros of the fraction are removed, and the
\* point too when no fraction is left.
Trimmed(int, kept, tail) ==
    [head |-> DigitText(int)
              \o (IF kept = <<>> THEN <<>> ELSE <<".">> \o DigitText(kept)),
     zeros |-> 0, tail |-> tail]

\* The digit body, as head \o zeros * "0" \o tail: the run of zeros that
\* the # flag keeps is counted, not spelled out.
Render(l, alt) ==
    IF alt
    THEN [head |-> DigitText(l.int) \o <<".">> \o DigitText(l.frac),
          zeros |-> l.pad, tail |-> l.tail]
    ELSE Trimmed(l.int, StripZeros(l.frac), l.tail)

Body(v, P, alt) == Render(Layout(RoundSig(v.digits, v.exp10, P), P), alt)

\* [-]inf and [-]nan; whether a NaN's sign bit is shown is the C library's
\* choice (nan_sign).
SpecialBody(v) ==
    [head |-> IF v.cls = "inf" THEN <<"i", "n", "f">> ELSE <<"n", "a", "n">>,
     zeros |-> 0, tail |-> <<>>]

ShowsMinus(v, ns) == v.neg /\ (v.cls = "nan" => ns)

SignText(v, c, ns) ==
    IF ShowsMinus(v, ns) THEN <<"-">>
    ELSE IF c.plus THEN <<"+">>
    ELSE IF c.space THEN <<" ">>
    ELSE <<>>

WithSign(sign, b) ==
    [sign |-> sign, head |-> b.head, zeros |-> b.zeros, tail |-> b.tail]

\* The converted token before field-width padding.
Token(v, c, ns) ==
    WithSign(SignText(v, c, ns),
             IF IsSpecial(v) THEN SpecialBody(v)
             ELSE Body(v, EffectivePrecision(c.prec), c.alt))

TokenLen(t) == Len(t.sign) + Len(t.head) + t.zeros + Len(t.tail)

\* Where the padding up to the field width goes: "-" pads on the right and
\* overrides "0"; "0" pads with zeros after the sign, except for an
\* infinity or NaN; otherwise spaces on the left.
PadPlace(v, c) ==
    IF c.left THEN "right"
    ELSE IF c.zero /\ ~IsSpecial(v) THEN "zeros"
    ELSE "left"

PadCount(t, width) ==
    IF width = None THEN 0 ELSE Max(width - TokenLen(t), 0)

\* The output's length and its first lim characters.
Emit(lim, t, place, padn) ==
    [n |-> TokenLen(t) + padn,
     buf |-> Prefix((IF place = "left" THEN Rep(" ", Min(padn, lim)) ELSE <<>>)
                    \o t.sign
                    \o (IF place = "zeros" THEN Rep("0", Min(padn, lim)) ELSE <<>>)
                    \o t.head \o Rep("0", Min(t.zeros, lim)) \o t.tail
                    \o (IF place = "right" THEN Rep(" ", Min(padn, lim)) ELSE <<>>),
                    lim)]

Padded(lim, t, place, width) == Emit(lim, t, place, PadCount(t, width))

Convert(size, c, v, ns) ==
    Padded(size - 1, Token(v, c, ns), PadPlace(v, c), c.width)

\* snprintf(buf, size, format, value): the number of characters the whole
\* output has, and the at most size - 1 characters stored before the NUL.
Snprintf(size, ctl, v, ns) == Convert(size, ParseControl(ctl), v, ns)

(***************************************************************************)
(* fmt_g as a function of its inputs: the Result and the text handed to    *)
(* formatter.write_str.                                                    *)
(***************************************************************************)
\* Mutant: the bound is taken one character too early.
OverflowedEarly(nb) == nb < 0 \/ nb >= NUMSTR_SIZE - 1

\* check if we (virtually) overflowed our buffer
Overflowed(nb) == nb < 0 \/ nb >= NUMSTR_SIZE

\* Mutant: the slice stops one byte short.
NumstrSliceShort(buf, nb) == SubSeq(buf, 1, nb - 1)

\* &numstr[..nbchars as usize]
NumstrSlice(buf, nb) == SubSeq(buf, 1, nb)

Written(r) ==
    IF Overflowed(r.n) THEN [result |-> "Err", text |-> <<>>]
    ELSE [result |-> "Ok", text |-> NumstrSlice(r.buf, r.n)]

FmtG(fm, v, ns) ==
    IF ~WriteFits(ControlString(fm)) THEN [result |-> "Err", text |-> <<>>]
    ELSE Written(Snprintf(NUMSTR_SIZE, ControlString(fm), v, ns))

(***************************************************************************)
(* One call of fmt_g(formatter, value), step by step.                      *)
(***************************************************************************)
VARIABLES value, f, nan_sign, pc, format, nbchars, numstr, sink, result

vars == <<value, f, nan_sign, pc, format, nbchars, numstr, sink, result>>

Widths == {None, 0, 1, MidWidth, MaxWidth, NUMSTR_SIZE - 1, NUMSTR_SIZE, BigWidth}

Precisions ==
    {None} \cup (0..MaxPrec) \cup {NUMSTR_SIZE - 2, NUMSTR_SIZE - 1, BigPrec}

\* The format spec grammar has one optional sign, "+" or "-": sign_plus and
\* sign_minus are never both set.
Formatters ==
    { x \in [ sign_aware_zero_pad : BOOLEAN, sign_minus : BOOLEAN,
              sign_plus : BOOLEAN, alternate : BOOLEAN,
              width : Widths, precision : Precisions ] :
        ~(x.sign_minus /\ x.sign_plus) }

Init ==
    /\ value \in Values
    /\ f \in Formatters
    /\ nan_sign \in (IF value.cls = "nan" /\ value.neg THEN BOOLEAN ELSE {TRUE})
    /\ pc = "start"
    /\ format = <<>>
    /\ nbchars = 0
    /\ numstr = <<>>
    /\ sink = <<>>
    /\ result = "Pending"

\* write!(fmtbuf, ...) succeeds: the control string is in format, NUL
\* terminated.
AssembleControl ==
    /\ pc = "start"
    /\ WriteFits(ControlString(f))
    /\ format' = ControlString(f)
    /\ pc' = "snprintf"
    /\ UNCHANGED <<value, f, nan_sign, nbchars, numstr, sink, result>>

\* write!(fmtbuf, ...) fails: .map_err(|_| fmt::Error)? returns.
AssembleFails ==
    /\ pc = "start"
    /\ ~WriteFits(ControlString(f))
    /\ format' = Prefix(ControlString(f), CursorCapacity)
    /\ result' = "Err"
    /\ pc' = "done"
    /\ UNCHANGED <<value, f, nan_sign, nbchars, numstr, sink>>

CallSnprintf ==
    /\ pc = "snprintf"
    /\ nbchars' = Snprintf(NUMSTR_SIZE, format, value, nan_sign).n
    /\ numstr' = Snprintf(NUMSTR_SIZE, format, value, nan_sign).buf
    /\ pc' = "check"
    /\ UNCHANGED <<value, f, nan_sign, format, sink, result>>

\* if nbchars < 0 || nbchars >= NUMSTR_SIZE as i32 { return Err(fmt::Error) }
OverflowError ==
    /\ pc = "check"
    /\ Overflowed(nbchars)
    /\ result' = "Err"
    /\ pc' = "done"
    /\ UNCHANGED <<value, f, nan_sign, format, nbchars, numstr, sink>>

\* formatter.write_str(&numstr[..nbchars])
WriteStr ==
    /\ pc = "check"
    /\ ~Overflowed(nbchars)
    /\ sink' = sink \o NumstrSlice(numstr, nbchars)
    /\ result' = "Ok"
    /\ pc' = "done"
    /\ UNCHANGED <<value, f, nan_sign, format, nbchars, numstr>>

Next ==
    \/ AssembleControl
    \/ AssembleFails
    \/ CallSnprintf
    \/ OverflowError
    \/ WriteStr

Spec == Init /\ [][Next]_vars

TypeOK ==
    /\ pc \in {"start", "snprintf", "check", "done"}
    /\ result \in {"Pending", "Ok", "Err"}
    /\ (pc = "done") = (result # "Pending")
    /\ pc = "done" => [result |-> result, text |-> sink] = FmtG(f, value, nan_sign)

(***************************************************************************)
(* Vocabulary of the properties.                                           *)
(***************************************************************************)
Done == pc = "done"
Succeeded == pc = "done" /\ result = "Ok"
Failed == pc = "done" /\ result = "Err"

\* The rendering snprintf pads: sign, digits, exponent suffix.
Rendering == Token(value, ParseControl(ControlString(f)), nan_sign)
RenderingLen == TokenLen(Rendering)
BodyText(t) == t.head \o Rep("0", t.zeros) \o t.tail
TokenText(t) == t.sign \o BodyText(t)

\* s is the text of token t (lengths are compared first: the text of a
\* token with a long run of zeros is only spelled out when s is as long).
IsTextOf(s, t) == Len(s) = TokenLen(t) /\ s = TokenText(t)

\* The length of the whole output snprintf composes for the call.
ComposedLen == Snprintf(NUMSTR_SIZE, ControlString(f), value, nan_sign).n

SetMin(S) == CHOOSE m \in S : \A k \in S : m <= k
SetMax(S) == CHOOSE m \in S : \A k \in S : m >= k
NonSpace(s) == { i \in 1..Len(s) : s[i] # " " }

\* s without the spaces before and after it.
Core(s) ==
    IF NonSpace(s) = {} THEN <<>>
    ELSE SubSeq(s, SetMin(NonSpace(s)), SetMax(NonSpace(s)))

\* The test values of the crate.
V42 == Finite(FALSE, <<4, 2>>, 1)
V432100 == Finite(FALSE, <<4, 3, 2, 1>>, 5)
V4321 == Finite(FALSE, <<4, 3, 2, 1>>, 3)
PlusNaN == [cls |-> "nan", neg |-> FALSE, digits |-> <<0>>, exp10 |-> 0]

SignlessNaN == value.cls = "nan" => ~value.neg

LeadingChar == IF Core(sink) = <<>> THEN "" ELSE Core(sink)[1]

\* C2 as stated: with force_sign every non-negative value (positive finite,
\* +0, +Infinity, NaN) is written with a leading "+" and every negative
\* value with a leading "-", whatever the width, precision and other flags;
\* without force_sign a non-negative value carries no sign character.
C2_SignAlways ==
    (Succeeded /\ SignlessNaN) =>
        IF value.neg THEN LeadingChar = "-"
        ELSE IF f.sign_plus THEN LeadingChar = "+"
        ELSE LeadingChar \notin {"+", "-"}

(***************************************************************************)
(* C3  Zero padding.                                                       *)
(***************************************************************************)
\* C3: when the rendering is shorter than the width, zero_pad is set and
\* left_justify is not, a finite value is written as its sign, then "0"
\* characters up to the width, then its digits; a NaN or infinity is
\* written as spaces up to the width, then the whole token.
C3_ZeroPadding ==
    (Succeeded /\ f.sign_aware_zero_pad /\ ~f.sign_minus
               /\ f.width # None /\ RenderingLen < f.width) =>
        IF IsSpecial(value)
        THEN sink = Rep(" ", f.width - RenderingLen) \o TokenText(Rendering)
        ELSE sink = Rendering.sign \o Rep("0", f.width - RenderingLen)
                                   \o BodyText(Rendering)

\* format!("{:08}", GPoint(-1.01)) == "-0001.01"
C3_Witness ==
    /\ Succeeded /\ f.sign_aware_zero_pad /\ ~f.sign_minus
    /\ f.width = MaxWidth /\ RenderingLen < f.width
    /\ value.cls = "finite" /\ value.neg
    /\ Len(sink) = MaxWidth
    /\ sink[1] = "-" /\ sink[2] = "0"
    /\ SubSeq(sink, Len(sink) - 3, Len(sink)) = <<"1", ".", "0", "1">>

(***************************************************************************)
(* C4  Left-justify suppresses zero padding.                               *)
(***************************************************************************)
\* C4: a call with zero_pad and left_justify both set ends as the call with
\* left_justify alone does, with the same text: the token followed by
\* spaces up to the width, and no "0" padding.
C4_LeftBeatsZero ==
    (Done /\ f.sign_aware_zero_pad /\ f.sign_minus) =>
        /\ [result |-> result, text |-> sink]
             = FmtG([f EXCEPT !.sign_aware_zero_pad = FALSE], value, nan_sign)
        /\ (result = "Ok" /\ f.width # None /\ RenderingLen < f.width) =>
             sink = TokenText(Rendering) \o Rep(" ", f.width - RenderingLen)

\* format!("{:-08}", GPoint(42.)) == "42      "
C4_Witness ==
    /\ Succeeded /\ f.sign_aware_zero_pad /\ f.sign_minus
    /\ value = V42 /\ f.width = MaxWidth /\ f.precision = None
    /\ Len(sink) = MaxWidth
    /\ sink[1] = "4" /\ sink[2] = "2" /\ sink[3] = " " /\ sink[Len(sink)] = " "

(***************************************************************************)
(* Reading a written number back: mantissa, fraction, exponent.            *)
(***************************************************************************)
Positions(s, c) == { i \in 1..Len(s) : s[i] = c }
IndexOf(s, c) == IF Positions(s, c) = {} THEN 0 ELSE SetMin(Positions(s, c))

\* The part of a written number before its exponent suffix.
MantissaOf(core) ==
    IF IndexOf(core, "e") = 0 THEN core
    ELSE SubSeq(core, 1, IndexOf(core, "e") - 1)

SuffixOf(core) ==
    IF IndexOf(core, "e") = 0 THEN <<>>
    ELSE SubSeq(core, IndexOf(core, "e"), Len(core))

\* The number of digits after the decimal point of mantissa m.
FracCount(m) == IF IndexOf(m, ".") = 0 THEN 0 ELSE Len(m) - IndexOf(m, ".")

\* The number of digits of m from its first non-zero digit on.
SigCount(m) ==
    Cardinality({ i \in 1..Len(m) :
                    /\ IsDigit(m[i])
                    /\ \E j \in 1..i : IsDigit(m[j]) /\ m[j] # "0" })

\* An exponent suffix for exponent x: "e", a sign, two digits or more.
IsSuffixFor(sfx, x) ==
    /\ Len(sfx) >= 4
    /\ sfx[1] = "e"
    /\ sfx[2] = (IF x < 0 THEN "-" ELSE "+")
    /\ \A i \in 3..Len(sfx) : IsDigit(sfx[i])
    /\ ReadInt(SubSeq(sfx, 3, Len(sfx))) = (IF x < 0 THEN -x ELSE x)
    /\ (Len(sfx) > 4 => sfx[3] # "0")

\* The effective precision of the call's directives.
RequestedP ==
    IF f.precision = None THEN 6 ELSE IF f.precision = 0 THEN 1 ELSE f.precision

\* The decimal exponent of the value once rounded to P significant digits:
\* one more than the value's own when the first P digits are nines and the
\* rest is a half or more.
RoundedExponent(v, P) ==
    IF /\ Len(v.digits) > P
       /\ \A i \in 1..P : v.digits[i] = 9
       /\ v.digits[P + 1] >= 5
    THEN v.exp10 + 1
    ELSE v.exp10

\* The fractional digits due before trimming.
FracDue(P, E) == IF E < -4 \/ E >= P THEN P - 1 ELSE Max(P - 1 - E, 0)

(***************************************************************************)
(* C5  Choice of notation.                                                 *)
(***************************************************************************)
NotationOK(core, P, E, alt) ==
    /\ (IndexOf(core, "e") # 0) = (E < -4 \/ E >= P)
    /\ IndexOf(core, "e") # 0 => IsSuffixFor(SuffixOf(core), E)
    /\ IF alt THEN FracCount(MantissaOf(core)) = FracDue(P, E)
       ELSE FracCount(MantissaOf(core)) <= FracDue(P, E)

TrimOK(m, P, due, alt, isZero) ==
    IF alt
    THEN /\ Cardinality(Positions(m, ".")) = 1
         /\ IF isZero THEN FracCount(m) = P - 1 ELSE SigCount(m) = P
         /\ due = 0 => m[Len(m)] = "."
    ELSE IndexOf(m, ".") # 0 => m[Len(m)] \notin {"0", "."}

SpecialLiteral(v) ==
    IF v.cls = "nan" THEN <<"n", "a", "n">> ELSE <<"i", "n", "f">>

\* The texts a special value may be written as, padding apart.
SpecialTexts(v, ns) ==
    IF v.neg /\ (v.cls = "inf" \/ ns)
    THEN { <<"-">> \o SpecialLiteral(v) }
    ELSE { SpecialLiteral(v), <<"+">> \o SpecialLiteral(v) }

\* C7: the body written for a NaN is "nan" and for an infinity "inf"
\* ("-inf" for -Infinity), whatever the precision and the alternate flag:
\* only a sign and padding are added, and the call with the alternate flag
\* flipped writes the same text.
C7_SpecialLiterals ==
    (Succeeded /\ IsSpecial(value)) =>
        /\ Core(sink) \in SpecialTexts(value, nan_sign)
        /\ sink = FmtG([f EXCEPT !.alternate = ~f.alternate], value, nan_sign).text

C7_Witness ==
    /\ Succeeded /\ value = PlusNaN /\ f.alternate /\ f.precision = 0
    /\ sink = <<"n", "a", "n">>

(***************************************************************************)
(* C8  Precision normalization.                                            *)
(***************************************************************************)
\* The g conversion the directives ask for, at precision p.
Requested(fm, p) ==
    [alt |-> fm.alternate, left |-> fm.sign_minus,
     plus |-> fm.sign_plus /\ ~fm.sign_minus, space |-> FALSE,
     zero |-> fm.sign_aware_zero_pad, width |-> fm.width, prec |-> p,
     conv |-> "g"]

Outcome == [result |-> result, text |-> sink]

\* C8: a call without precision ends as the g conversion of its directives
\* at precision 6 does, and a call with precision 0 ends as the call with
\* precision 1 and the same other directives does, with the same text.
C8_PrecisionNormalized ==
    Done =>
        /\ f.precision = None =>
             Outcome = Written(Convert(NUMSTR_SIZE, Requested(f, 6), value, nan_sign))
        /\ f.precision = 0 =>
             Outcome = FmtG([f EXCEPT !.precision = 1], value, nan_sign)

\* 4321 at precision 0 is written as at precision 1.
C8_Witness ==
    /\ Succeeded /\ value = V4321 /\ f.precision = 0 /\ f.width = None
    /\ ~f.alternate
    /\ sink = <<"4", "e", "+", "0", "3">>

(***************************************************************************)
(* C9  Overflow of the rendering buffer.                                   *)
(***************************************************************************)
AllOrNothing ==
    /\ result # "Ok" => sink = <<>>
    /\ result = "Ok" => Len(sink) = ComposedLen /\ sink = numstr

C10_ControlAlwaysFits ==
    pc # "start" =>
        /\ format = ControlString(f)
        /\ Len(format) <= FORMAT_SIZE - 1

====
